---- MODULE Spec2Model ----
(***************************************************************************)
(* Model of orchestrator_eval_ollama.py: the JSON extractor, the tool-call *)
(* validator, the model invoker and the scenario runner.                   *)
(*                                                                         *)
(* A text is a sequence of lexical tokens.  The tokens "{" and "}" are the *)
(* brace characters the extractor searches for; the other tokens are JSON  *)
(* punctuation, JSON literals, whitespace and prose words.  No token other *)
(* than "{" and "}" contains a brace.                                      *)
(***************************************************************************)
EXTENDS Integers, Sequences, FiniteSets, TLC

VARIABLES
    \* ---- run_tests ----
    pc,         \* position of the process inside run_tests
    idx,        \* index (1-based) of the scenario the for loop is at
    prompt,     \* local `prompt` of run_tests
    out,        \* local `out` of run_tests
    call,       \* local `call` of run_tests
    log,        \* everything printed so far, one entry per print call
    launches,   \* per scenario: number of external processes started
    outcomes,   \* per scenario started: what the external process did
    exitStatus, \* exit status of the process once it has terminated, else -1
    \* ---- the pure functions applied to one text ----
    text,       \* the input text
    stage,      \* which function has been applied
    extracted,  \* extract_first_json(text)
    again,      \* extract_first_json applied to the extracted candidate
    parsed      \* parse_tool_call(text): the returned value and what it printed

vars == <<pc, idx, prompt, out, call, log, launches, outcomes, exitStatus,
          text, stage, extracted, again, parsed>>

runVars == <<pc, idx, prompt, out, call, log, launches, outcomes, exitStatus>>

pureVars == <<text, stage, extracted, again, parsed>>

(***************************************************************************)
(* Bounds of the model.                                                    *)
(***************************************************************************)
\* longest text over the brace alphabet the extractor is applied to
MaxLen == 5

\* most members of the generated top-level JSON object
MaxMembers == 3

(***************************************************************************)
(* Python's None and Optional values.                                      *)
(***************************************************************************)
None == [none |-> TRUE]

Some(v) == [none |-> FALSE, val |-> v]

(***************************************************************************)
(* str.index, str.rfind, slicing and str.strip on token sequences, with    *)
(* Python's 0-based positions.                                             *)
(***************************************************************************)
Positions(s, c) == {p \in 0 .. Len(s) - 1 : s[p + 1] = c}

SetMin(S) == CHOOSE m \in S : \A n \in S : m <= n

SetMax(S) == CHOOSE m \in S : \A n \in S : n <= m

\* str.index raises ValueError when the character is absent
IndexRaises(s, c) == Positions(s, c) = {}

Index(s, c) == SetMin(Positions(s, c))

\* str.rfind returns -1 when the character is absent
RFind(s, c) == IF Positions(s, c) = {} THEN -1 ELSE SetMax(Positions(s, c))

\* s[lo:hi] for 0 <= lo and 0 <= hi
Slice(s, lo, hi) ==
    LET h == IF hi > Len(s) THEN Len(s) ELSE hi
    IN  IF lo >= h THEN << >> ELSE SubSeq(s, lo + 1, h)

Whitespace == {" "}

RECURSIVE LStrip(_)
LStrip(s) ==
    IF s # << >> /\ Head(s) \in Whitespace THEN LStrip(Tail(s)) ELSE s

RECURSIVE RStrip(_)
RStrip(s) ==
    IF s # << >> /\ s[Len(s)] \in Whitespace
    THEN RStrip(SubSeq(s, 1, Len(s) - 1))
    ELSE s

Strip(s) == RStrip(LStrip(s))

(***************************************************************************)
(* extract_first_json                                                      *)
(***************************************************************************)
\* faulty variant: the candidate ends at the first "}" instead of the last
extract_first_json_first_close(t) ==
    IF IndexRaises(t, "{")
    THEN None
    ELSE Some(Slice(t, Index(t, "{"),
                    (IF IndexRaises(t, "}") THEN -1 ELSE Index(t, "}")) + 1))

\* faulty variant: text[start:end], the closing brace is cut off
extract_first_json_exclusive_end(t) ==
    IF IndexRaises(t, "{")
    THEN None
    ELSE Some(Slice(t, Index(t, "{"), RFind(t, "}")))

\* text.index raises ValueError when there is no "{", which the except clause
\* turns into None; rfind and the slice never raise
extract_first_json(t) ==
    IF IndexRaises(t, "{")
    THEN None
    ELSE Some(Slice(t, Index(t, "{"), RFind(t, "}") + 1))

(***************************************************************************)
(* JSON values as json.loads builds them.                                  *)
(***************************************************************************)
JStr(s) == [t |-> "str", s |-> s]

JNum(n) == [t |-> "num", n |-> n]

JNull == [t |-> "null"]

JArr(a) == [t |-> "arr", a |-> a]

\* a dict: a function from its keys to its values
JObj(m) == [t |-> "obj", m |-> m]

EmptyDict == << >>

\* the string literals of the token alphabet and the Python str each denotes
StringTokens ==
    {"\"tool_name\"", "\"parameters\"", "\"protocol\"", "\"note\"",
     "\"add_protocol\"", "\"add_ecu\"", "\"validate_configuration\"", "\"CAN\""}

StrValue(tok) ==
    CASE tok = "\"tool_name\"" -> "tool_name"
      [] tok = "\"parameters\"" -> "parameters"
      [] tok = "\"protocol\"" -> "protocol"
      [] tok = "\"note\"" -> "note"
      [] tok = "\"add_protocol\"" -> "add_protocol"
      [] tok = "\"add_ecu\"" -> "add_ecu"
      [] tok = "\"validate_configuration\"" -> "validate_configuration"
      [] tok = "\"CAN\"" -> "CAN"

NumberTokens == {"7"}

NumValue(tok) == CASE tok = "7" -> 7

(***************************************************************************)
(* json.loads: a recursive-descent decoder.  A decode step returns         *)
(* [ok, val, next]: whether a value was decoded, the value, and the        *)
(* 1-based position after it.                                              *)
(***************************************************************************)
DecodeError == [ok |-> FALSE]

Decoded(v, n) == [ok |-> TRUE, val |-> v, next |-> n]

RECURSIVE SkipWs(_, _)
SkipWs(toks, i) ==
    IF i <= Len(toks) /\ toks[i] \in Whitespace THEN SkipWs(toks, i + 1) ELSE i

TokAt(toks, i) == IF i <= Len(toks) THEN toks[i] ELSE "EOF"

RECURSIVE DecodeValue(_, _)
RECURSIVE DecodeMembers(_, _, _)
RECURSIVE DecodeElements(_, _, _)

DecodeValue(toks, i0) ==
    LET i == SkipWs(toks, i0)
        tok == TokAt(toks, i)
    IN  CASE tok \in StringTokens -> Decoded(JStr(StrValue(tok)), i + 1)
          [] tok \in NumberTokens -> Decoded(JNum(NumValue(tok)), i + 1)
          [] tok = "null" -> Decoded(JNull, i + 1)
          [] tok = "{" ->
                IF TokAt(toks, SkipWs(toks, i + 1)) = "}"
                THEN Decoded(JObj(EmptyDict), SkipWs(toks, i + 1) + 1)
                ELSE DecodeMembers(toks, i + 1, EmptyDict)
          [] tok = "[" ->
                IF TokAt(toks, SkipWs(toks, i + 1)) = "]"
                THEN Decoded(JArr(<< >>), SkipWs(toks, i + 1) + 1)
                ELSE DecodeElements(toks, i + 1, << >>)
          [] OTHER -> DecodeError

\* the members of an object from position i0 on; acc holds the ones decoded
\* so far, a repeated key keeps its last value
DecodeMembers(toks, i0, acc) ==
    LET k == SkipWs(toks, i0)
        c == SkipWs(toks, k + 1)
    IN  IF TokAt(toks, k) \notin StringTokens \/ TokAt(toks, c) # ":"
        THEN DecodeError
        ELSE LET v == DecodeValue(toks, c + 1)
             IN  IF ~v.ok
                 THEN DecodeError
                 ELSE LET e == SkipWs(toks, v.next)
                          m == (StrValue(toks[k]) :> v.val) @@ acc
                      IN  CASE TokAt(toks, e) = "}" -> Decoded(JObj(m), e + 1)
                            [] TokAt(toks, e) = "," -> DecodeMembers(toks, e + 1, m)
                            [] OTHER -> DecodeError

DecodeElements(toks, i0, acc) ==
    LET v == DecodeValue(toks, i0)
    IN  IF ~v.ok
        THEN DecodeError
        ELSE LET e == SkipWs(toks, v.next)
             IN  CASE TokAt(toks, e) = "]" -> Decoded(JArr(Append(acc, v.val)), e + 1)
                   [] TokAt(toks, e) = "," -> DecodeElements(toks, e + 1, Append(acc, v.val))
                   [] OTHER -> DecodeError

\* json.loads(s): one value, then nothing but whitespace; JSONDecodeError otherwise
json_loads(s) ==
    LET v == DecodeValue(s, 1)
    IN  IF v.ok /\ SkipWs(s, v.next) = Len(s) + 1 THEN v ELSE DecodeError

(***************************************************************************)
(* ToolCall: the pydantic model with the two required fields               *)
(* tool_name: str and parameters: dict.  Unknown fields are ignored.       *)
(***************************************************************************)
ValidationFailure(reason) == [ok |-> FALSE, reason |-> reason]

\* faulty variant: a missing parameters field defaults to the empty dict
ToolCall_default_parameters(data) ==
    IF data.t # "obj"
    THEN ValidationFailure("TypeError")
    ELSE IF "tool_name" \notin DOMAIN data.m
         THEN ValidationFailure("ValidationError")
         ELSE IF data.m["tool_name"].t # "str"
              THEN ValidationFailure("ValidationError")
              ELSE IF "parameters" \notin DOMAIN data.m
                   THEN [ok |-> TRUE,
                         obj |-> [tool_name |-> data.m["tool_name"].s,
                                  parameters |-> EmptyDict]]
                   ELSE IF data.m["parameters"].t # "obj"
                        THEN ValidationFailure("ValidationError")
                        ELSE [ok |-> TRUE,
                              obj |-> [tool_name |-> data.m["tool_name"].s,
                                       parameters |-> data.m["parameters"].m]]

\* Validation follows the declared field types: a JSON number is no str and a
\* JSON array is no dict.  A data that is no mapping makes ** raise TypeError.
\* ToolCall(**data)
ToolCall(data) ==
    IF data.t # "obj"
    THEN ValidationFailure("TypeError")
    ELSE IF {"tool_name", "parameters"} \subseteq DOMAIN data.m
         THEN IF data.m["tool_name"].t = "str" /\ data.m["parameters"].t = "obj"
              THEN [ok |-> TRUE,
                    obj |-> [tool_name |-> data.m["tool_name"].s,
                             parameters |-> data.m["parameters"].m]]
              ELSE ValidationFailure("ValidationError")
         ELSE ValidationFailure("ValidationError")

(***************************************************************************)
(* Printed lines: one record per print call.                               *)
(***************************************************************************)
LineTesting == [kind |-> "testing"]

LineHeader(sid) == [kind |-> "header", sid |-> sid]

LineOllamaError(stderr) == [kind |-> "ollama_error", stderr |-> stderr]

LineParseFailed(reason) == [kind |-> "parse_failed", reason |-> reason]

LineRawText(raw) == [kind |-> "raw_text", raw |-> raw]

LineTool(name) == [kind |-> "tool", name |-> name]

LineParameters(params) == [kind |-> "parameters", params |-> params]

LineFailed == [kind |-> "failed"]

LineTime == [kind |-> "time"]

(***************************************************************************)
(* parse_tool_call: the value returned and the lines printed.              *)
(***************************************************************************)
Returned(c, printed) == [call |-> c, printed |-> printed]

\* `not j` for an Optional[str]: None and the empty string are falsy
Falsy(j) == j.none \/ j.val = << >>

ParseDiagnostic(reason, output) == <<LineParseFailed(reason), LineRawText(output)>>

\* faulty variant: `if j is None`, the empty candidate reaches json.loads
parse_tool_call_is_none(output) ==
    LET j == extract_first_json(output)
    IN  IF j.none
        THEN Returned(None, << >>)
        ELSE LET data == json_loads(j.val)
             IN  IF ~data.ok
                 THEN Returned(None, ParseDiagnostic("JSONDecodeError", output))
                 ELSE LET c == ToolCall(data.val)
                      IN  IF c.ok
                          THEN Returned(Some(c.obj), << >>)
                          ELSE Returned(None, ParseDiagnostic(c.reason, output))

\* faulty variant: a shape mismatch is not reported
parse_tool_call_silent(output) ==
    LET j == extract_first_json(output)
    IN  IF Falsy(j)
        THEN Returned(None, << >>)
        ELSE LET data == json_loads(j.val)
             IN  IF ~data.ok
                 THEN Returned(None, ParseDiagnostic("JSONDecodeError", output))
                 ELSE LET c == ToolCall(data.val)
                      IN  IF c.ok
                          THEN Returned(Some(c.obj), << >>)
                          ELSE Returned(None, << >>)

parse_tool_call(output) ==
    LET j == extract_first_json(output)
    IN  IF Falsy(j)
        THEN Returned(None, << >>)
        ELSE LET data == json_loads(j.val)
             IN  IF ~data.ok
                 THEN Returned(None, ParseDiagnostic("JSONDecodeError", output))
                 ELSE LET c == ToolCall(data.val)
                      IN  IF c.ok
                          THEN Returned(Some(c.obj), << >>)
                          ELSE Returned(None, ParseDiagnostic(c.reason, output))

(***************************************************************************)
(* ollama_run.  What subprocess.run does is an input of the model:         *)
(*   exited(0, stdout)  the process ran and exited with status 0           *)
(*   nonzero(stderr)    the process ran and exited with a non-zero status: *)
(*                      check=True raises CalledProcessError               *)
(*   cannot_start       the executable could not be started: Popen raises  *)
(*                      FileNotFoundError, an OSError                      *)
(* The result says whether an exception leaves ollama_run, the value       *)
(* returned otherwise, and the lines printed.                              *)
(***************************************************************************)
Exited(stdout) == [kind |-> "exited", stdout |-> stdout]

NonZero(stderr) == [kind |-> "nonzero", stderr |-> stderr]

CannotStart == [kind |-> "cannot_start"]

RunReturns(ret, printed) == [raised |-> FALSE, ret |-> ret, printed |-> printed]

RunRaises(exc) == [raised |-> TRUE, exc |-> exc, printed |-> << >>]

\* faulty variant: the error stream is returned in place of the empty string
ollama_run_returns_stderr(outcome) ==
    CASE outcome.kind = "exited" -> RunReturns(Strip(outcome.stdout), << >>)
      [] outcome.kind = "nonzero" ->
            RunReturns(outcome.stderr, <<LineOllamaError(outcome.stderr)>>)
      [] outcome.kind = "cannot_start" -> RunRaises("FileNotFoundError")

ollama_run(outcome) ==
    CASE outcome.kind = "exited" -> RunReturns(Strip(outcome.stdout), << >>)
      [] outcome.kind = "nonzero" ->
            RunReturns(<< >>, <<LineOllamaError(outcome.stderr)>>)
      [] outcome.kind = "cannot_start" -> RunRaises("FileNotFoundError")

(***************************************************************************)
(* The fixtures of the runner.                                             *)
(***************************************************************************)
SCENARIOS ==
    << <<"S1_simple_ecu", "Create an ECU with Cortex-M4 and 2 CAN controllers.">>,
       <<"S2_protocols", "The system should support both CAN and Ethernet communication.">>,
       <<"S3_memory", "Add an ECU with Cortex-R5, 4MB Flash memory and 2 SPI controllers.">>,
       <<"S4_hwip", "Attach an I2C block to ECU-1.">>,
       <<"S5_validate", "Check if the configuration is valid.">>,
       <<"S6_ambiguous", "Create an ECU with Cortex-M6 and 3 CAN controllers.">> >>

Sid(i) == SCENARIOS[i][1]

TOOL_DOC == "Available tools (call exactly one): ..."

\* PROMPT_TEMPLATE.format(tool_doc=tool_doc, user_input=user_input)
PROMPT_TEMPLATE(tool_doc, user_input) ==
    <<"You are an assistant that converts a user instruction into a single tool call.",
      tool_doc,
      "User instruction:",
      "\"\"\"", user_input, "\"\"\"",
      "Return exactly one JSON object representing the tool call.">>

(***************************************************************************)
(* What the external process may do in one scenario.                       *)
(***************************************************************************)
\* a call with empty parameters, with prose before it and whitespace around
OutEmptyParameters ==
    <<" ", "Sure:", "{", "\"tool_name\"", ":", "\"validate_configuration\"", ",",
      "\"parameters\"", ":", "{", "}", "}", " ">>

\* an object without the parameters field
OutMissingParameters == <<"{", "\"tool_name\"", ":", "\"add_ecu\"", "}">>

\* no brace at all
OutProse == <<"I think the answer is CAN.">>

\* an opening brace that is never closed
OutUnclosed == <<"{", "\"tool_name\"", ":", "\"add_ecu\"">>

\* two objects: the candidate runs from the first "{" to the last "}"
OutTwoObjects == <<"{", "}", " ", "{", "}">>

ModelOutputs ==
    {OutEmptyParameters, OutMissingParameters, OutProse, OutUnclosed, OutTwoObjects}

ProcessOutcomes ==
    {Exited(o) : o \in ModelOutputs}
        \cup {NonZero(<<"Error: model not found">>), CannotStart}

(***************************************************************************)
(* run_tests, one action per step of the loop body.                        *)
(***************************************************************************)
InitRun ==
    /\ pc = "start"
    /\ idx = 1
    /\ prompt = << >>
    /\ out = << >>
    /\ call = None
    /\ log = << >>
    /\ launches = [i \in 1 .. Len(SCENARIOS) |-> 0]
    /\ outcomes = << >>
    /\ exitStatus = -1

IdlePure ==
    /\ text = << >>
    /\ stage = "idle"
    /\ extracted = None
    /\ again = None
    /\ parsed = Returned(None, << >>)

\* print(f" Testing model: {model}") and entry into the for loop
Begin ==
    /\ pc = "start"
    /\ log' = Append(log, LineTesting)
    /\ pc' = "loop"
    /\ UNCHANGED <<idx, prompt, out, call, launches, outcomes, exitStatus>>
    /\ UNCHANGED pureVars

\* the next (sid, user) of SCENARIOS: header, prompt, start = time.time()
NextScenario ==
    /\ pc = "loop"
    /\ idx <= Len(SCENARIOS)
    /\ log' = Append(log, LineHeader(Sid(idx)))
    /\ prompt' = PROMPT_TEMPLATE(TOOL_DOC, SCENARIOS[idx][2])
    /\ pc' = "invoke"
    /\ UNCHANGED <<idx, out, call, launches, outcomes, exitStatus>>
    /\ UNCHANGED pureVars

\* out = ollama_run(model, prompt); an exception that leaves ollama_run leaves
\* run_tests and the module: the interpreter prints the traceback and exits 1
Invoke ==
    /\ pc = "invoke"
    /\ \E outcome \in ProcessOutcomes :
          LET r == ollama_run(outcome)
          IN  /\ launches' = [launches EXCEPT ![idx] = @ + 1]
              /\ outcomes' = Append(outcomes, outcome)
              /\ log' = log \o r.printed
              /\ IF r.raised
                 THEN /\ pc' = "crashed"
                      /\ exitStatus' = 1
                      /\ out' = out
                 ELSE /\ pc' = "parse"
                      /\ exitStatus' = exitStatus
                      /\ out' = r.ret
    /\ UNCHANGED <<idx, prompt, call>>
    /\ UNCHANGED pureVars

\* faulty variant: `call` keeps the previous scenario's value when parsing fails
Parse_stale ==
    /\ pc = "parse"
    /\ LET r == parse_tool_call(out)
       IN  /\ call' = IF r.call.none THEN call ELSE r.call
           /\ log' = log \o r.printed
    /\ pc' = "report"
    /\ UNCHANGED <<idx, prompt, out, launches, outcomes, exitStatus>>
    /\ UNCHANGED pureVars

\* elapsed = time.time() - start; call = parse_tool_call(out).  The clock is
\* not modelled: the time line carries no value.
Parse ==
    /\ pc = "parse"
    /\ LET r == parse_tool_call(out)
       IN  /\ call' = r.call
           /\ log' = log \o r.printed
    /\ pc' = "report"
    /\ UNCHANGED <<idx, prompt, out, launches, outcomes, exitStatus>>
    /\ UNCHANGED pureVars

\* `if call:` a ToolCall instance is truthy whatever its fields hold
Truthy(c) == ~c.none

Report ==
    /\ pc = "report"
    /\ log' = IF Truthy(call)
              THEN log \o <<LineTool(call.val.tool_name),
                             LineParameters(call.val.parameters)>>
              ELSE Append(log, LineFailed)
    /\ pc' = "time"
    /\ UNCHANGED <<idx, prompt, out, call, launches, outcomes, exitStatus>>
    /\ UNCHANGED pureVars

\* print(f" Time: {elapsed:.2f}s"), then the loop goes to the next scenario
PrintTime ==
    /\ pc = "time"
    /\ log' = Append(log, LineTime)
    /\ idx' = idx + 1
    /\ pc' = "loop"
    /\ UNCHANGED <<prompt, out, call, launches, outcomes, exitStatus>>
    /\ UNCHANGED pureVars

\* SCENARIOS is exhausted: run_tests returns and the interpreter exits 0
Finish ==
    /\ pc = "loop"
    /\ idx > Len(SCENARIOS)
    /\ pc' = "done"
    /\ exitStatus' = 0
    /\ UNCHANGED <<idx, prompt, out, call, log, launches, outcomes>>
    /\ UNCHANGED pureVars

Init == InitRun /\ IdlePure

Next == Begin \/ NextScenario \/ Invoke \/ Parse \/ Report \/ PrintTime \/ Finish

Spec == Init /\ [][Next]_vars

(***************************************************************************)
(* The pure functions applied to one input text.                           *)
(***************************************************************************)
IdleRun ==
    /\ pc = "idle"
    /\ idx = 1
    /\ prompt = << >>
    /\ out = << >>
    /\ call = None
    /\ log = << >>
    /\ launches = [i \in 1 .. Len(SCENARIOS) |-> 0]
    /\ outcomes = << >>
    /\ exitStatus = -1

InitPure ==
    /\ stage = "input"
    /\ extracted = None
    /\ again = None
    /\ parsed = Returned(None, << >>)

ApplyExtract ==
    /\ stage = "input"
    /\ extracted' = extract_first_json(text)
    /\ stage' = "extracted"
    /\ UNCHANGED <<text, again, parsed>>
    /\ UNCHANGED runVars

ApplyExtractAgain ==
    /\ stage = "extracted"
    /\ ~extracted.none
    /\ again' = extract_first_json(extracted.val)
    /\ stage' = "again"
    /\ UNCHANGED <<text, extracted, parsed>>
    /\ UNCHANGED runVars

ApplyParse ==
    /\ stage = "input"
    /\ parsed' = parse_tool_call(text)
    /\ extracted' = extract_first_json(text)
    /\ stage' = "parsed"
    /\ UNCHANGED <<text, again>>
    /\ UNCHANGED runVars

NextPure == ApplyExtract \/ ApplyExtractAgain \/ ApplyParse

\* every text of at most MaxLen tokens over braces and one non-brace token
BraceAlphabet == {"{", "}", "x"}

BraceTexts == UNION {[1 .. n -> BraceAlphabet] : n \in 0 .. MaxLen}

InitExtract == IdleRun /\ InitPure /\ text \in BraceTexts

SpecExtract == InitExtract /\ [][NextPure]_vars

\* texts built around one JSON-like object of at most MaxMembers members
MemberKeys == {"\"tool_name\"", "\"parameters\"", "\"note\""}

MemberValues ==
    { <<"\"add_protocol\"">>,
      <<"7">>,
      <<"{", "}">>,
      <<"{", "\"protocol\"", ":", "\"CAN\"", "}">> }

Members == {<<k, ":">> \o v : k \in MemberKeys, v \in MemberValues}

MemberLists == UNION {[1 .. n -> Members] : n \in 0 .. MaxMembers}

Separators == {",", " "}

RECURSIVE Join(_, _)
Join(ms, sep) ==
    IF ms = << >> THEN << >>
    ELSE IF Len(ms) = 1 THEN ms[1]
    ELSE ms[1] \o <<sep>> \o Join(Tail(ms), sep)

\* what surrounds the object: nothing, prose and whitespace, a stray "{" before
\* it, a stray "}" after it
Wraps ==
    { << << >>, << >> >>,
      << <<"Sure:", " ">>, <<" ", "Done.">> >>,
      << <<"{">>, << >> >>,
      << << >>, <<"}">> >> }

ObjectTexts ==
    {w[1] \o <<"{">> \o Join(ms, sep) \o <<"}">> \o w[2] :
        w \in Wraps, ms \in MemberLists, sep \in Separators}

InitParse == IdleRun /\ InitPure /\ text \in ObjectTexts

NextParse == ApplyParse

SpecParse == InitParse /\ [][NextParse]_vars

(***************************************************************************)
(* Vocabulary of the properties.                                           *)
(***************************************************************************)
NumScenarios == Len(SCENARIOS)

\* the header of scenario i has been printed
Started(i) == \E p \in 1 .. Len(log) : log[p] = LineHeader(Sid(i))

HeaderAt(i) == CHOOSE p \in 1 .. Len(log) : log[p] = LineHeader(Sid(i))

\* the lines printed from the header of scenario i up to the next header
Segment(i) ==
    LET last == IF i < NumScenarios /\ Started(i + 1)
                THEN HeaderAt(i + 1) - 1
                ELSE Len(log)
    IN  SubSeq(log, HeaderAt(i), last)

IsDiagnostic(l) == l.kind \in {"parse_failed", "raw_text"}

IsResult(l) == l.kind \in {"tool", "parameters", "failed"}

IsMarker(l) == l.kind \in {"tool", "failed"}

IsRunnerLine(l) == l.kind \in {"header", "tool", "failed", "time"}

\* the reason and raw-text lines parse_tool_call printed for scenario i
DiagnosticLines(i) == SelectSeq(Segment(i), IsDiagnostic)

\* the result the runner reported for scenario i
Summary(i) == SelectSeq(Segment(i), IsResult)

\* the runner has printed the result of scenario i
Reported(i) == i < idx \/ (i = idx /\ pc = "time")

\* the decoded value has the ToolCall shape
ToolCallShape(v) ==
    /\ v.t = "obj"
    /\ "tool_name" \in DOMAIN v.m
    /\ v.m["tool_name"].t = "str"
    /\ "parameters" \in DOMAIN v.m
    /\ v.m["parameters"].t = "obj"

Opens(t) == {p \in 1 .. Len(t) : t[p] = "{"}

Closes(t) == {p \in 1 .. Len(t) : t[p] = "}"}

FirstOpen(t) == CHOOSE p \in Opens(t) : \A q \in Opens(t) : p <= q

LastClose(t) == CHOOSE p \in Closes(t) : \A q \in Closes(t) : q <= p

\* the text has a "{" and a "}" at or after the first "{"
ClosedAfterOpen(t) == Opens(t) # {} /\ \E q \in Closes(t) : q >= FirstOpen(t)

\* the text has a "{" but no "}" at or after the first "{"
OpenNeverClosed(t) == Opens(t) # {} /\ ~ClosedAfterOpen(t)

\* the tokens of t from position p through position q, both included
Through(t, p, q) == [k \in 1 .. q - p + 1 |-> t[p + k - 1]]

\* the text begins with "{" and ends with "}"
Wrapped(t) == Len(t) >= 1 /\ t[1] = "{" /\ t[Len(t)] = "}"

(***************************************************************************)
(* C1.  After every failed launch of the external process, a non-zero exit *)
(* and an executable that cannot be started alike, ollama_run has printed  *)
(* a diagnostic and returned the empty string, and run_tests goes on to    *)
(* the parse step of the same scenario instead of being left by an         *)
(* exception.                                                              *)
(***************************************************************************)
C1_LaunchFailureRecovered ==
    \A i \in 1 .. Len(outcomes) :
        outcomes[i].kind \in {"nonzero", "cannot_start"} =>
            /\ pc # "crashed"
            /\ \E p \in 1 .. Len(Segment(i)) : Segment(i)[p].kind = "ollama_error"
            /\ (i = idx /\ pc = "parse") => out = << >>

(***************************************************************************)
(* C2.  Whatever the six scenarios' outcomes are, the loop is never        *)
(* aborted: when the process has terminated, every scenario has been       *)
(* invoked, run_tests has reached the end of SCENARIOS and the exit status *)
(* is 0.                                                                   *)
(***************************************************************************)
C2_AlwaysExitsZero ==
    /\ pc # "crashed"
    /\ exitStatus # -1 =>
          /\ exitStatus = 0
          /\ idx = NumScenarios + 1
          /\ \A i \in 1 .. NumScenarios : launches[i] = 1

(***************************************************************************)
(* C3.  A scenario whose external process exits non-zero prints            *)
(* "Ollama error:" with the process's error stream right after its header, *)
(* ollama_run returns the empty string, parse_tool_call returns no call    *)
(* and prints nothing, the scenario is reported as failed, and the loop    *)
(* goes on to the next scenario of the list.                               *)
(***************************************************************************)
C3_NonZeroExitRecovered ==
    \A i \in 1 .. Len(outcomes) :
        outcomes[i].kind = "nonzero" =>
            \A seg \in {Segment(i)} :
                /\ pc \in {"crashed", "done"} => i < idx
                /\ Len(seg) >= 2
                /\ seg[2] = LineOllamaError(outcomes[i].stderr)
                /\ (i = idx /\ pc = "parse") => out = << >>
                /\ (i = idx /\ pc \in {"report", "time"}) => call = None
                /\ (i = idx /\ pc = "time") =>
                      seg = <<LineHeader(Sid(i)),
                              LineOllamaError(outcomes[i].stderr), LineFailed>>
                /\ i < idx =>
                      /\ seg = <<LineHeader(Sid(i)),
                                 LineOllamaError(outcomes[i].stderr),
                                 LineFailed, LineTime>>
                      /\ idx = NumScenarios + 1 \/ pc = "loop" \/ Started(i + 1)

\* a scenario exited non-zero and the next scenario's process was started
C3_Witness ==
    \E i \in 1 .. Len(outcomes) :
        /\ outcomes[i].kind = "nonzero"
        /\ i < NumScenarios
        /\ launches[i + 1] = 1
        /\ pc = "parse"

(***************************************************************************)
(* C4 as stated.  Every call of parse_tool_call that returns no call has   *)
(* printed a diagnostic made of the failure reason and the raw model text, *)
(* and the runner marks the scenario failed.                               *)
(***************************************************************************)
C4_EveryFailurePrintsDiagnostic ==
    (pc \in {"report", "time"} /\ call = None) =>
        /\ \E reason \in {"JSONDecodeError", "ValidationError", "TypeError"} :
              DiagnosticLines(idx) = <<LineParseFailed(reason), LineRawText(out)>>
        /\ pc = "time" => log[Len(log)] = LineFailed

(***************************************************************************)
(* C4 amended.  parse_tool_call returns no call exactly when the extractor *)
(* yields no candidate, the candidate does not decode, or the decoded      *)
(* value lacks the ToolCall shape.  It prints the failure reason and the   *)
(* raw model text in the last two cases only; when the extractor yields    *)
(* None or the empty string it prints nothing.  In all three cases the     *)
(* runner marks the scenario failed.                                       *)
(***************************************************************************)
C4_DiagnosticOnlyForCandidate ==
    pc \in {"report", "time"} =>
        LET j == extract_first_json(out)
            noCandidate == j.none \/ j.val = << >>
            undecodable == ~noCandidate /\ ~json_loads(j.val).ok
            misshapen == /\ ~noCandidate
                         /\ json_loads(j.val).ok
                         /\ ~ToolCallShape(json_loads(j.val).val)
        IN  /\ call = None <=> (noCandidate \/ undecodable \/ misshapen)
            /\ noCandidate => DiagnosticLines(idx) = << >>
            /\ undecodable =>
                  DiagnosticLines(idx) =
                      <<LineParseFailed("JSONDecodeError"), LineRawText(out)>>
            /\ misshapen =>
                  DiagnosticLines(idx) =
                      <<LineParseFailed("ValidationError"), LineRawText(out)>>
            /\ (call = None /\ pc = "time") => log[Len(log)] = LineFailed

\* one run in which all three kinds of failure have been reported
C4_Witness ==
    /\ pc = "time"
    /\ call = None
    /\ DiagnosticLines(idx) = << >>
    /\ out # << >>
    /\ \E i \in 1 .. idx - 1 :
          \E l \in {DiagnosticLines(i)} :
              l # << >> /\ l[1] = LineParseFailed("JSONDecodeError")
    /\ \E i \in 1 .. idx - 1 :
          \E l \in {DiagnosticLines(i)} :
              l # << >> /\ l[1] = LineParseFailed("ValidationError")

(***************************************************************************)
(* C5 as stated.  extract_first_json returns None exactly when the text    *)
(* has no "{", and for every text that has a "{" it returns the tokens     *)
(* from the first "{" through the last "}", both included.                 *)
(***************************************************************************)
C5_AlwaysFirstOpenThroughLastClose ==
    stage = "extracted" =>
        /\ extracted.none <=> Opens(text) = {}
        /\ Opens(text) # {} =>
              /\ Closes(text) # {}
              /\ FirstOpen(text) <= LastClose(text)
              /\ extracted.val = Through(text, FirstOpen(text), LastClose(text))

(***************************************************************************)
(* C5 amended.  extract_first_json returns a value for every text; it      *)
(* returns None exactly when the text has no "{"; when the text has a "}"  *)
(* at or after its first "{" it returns the tokens from the first "{"      *)
(* through the last "}", both included; when the text has a "{" but no "}" *)
(* at or after the first "{" it returns the empty string.                  *)
(***************************************************************************)
C5_FirstOpenThroughLastCloseOrEmpty ==
    stage = "extracted" =>
        /\ extracted.none <=> Opens(text) = {}
        /\ ClosedAfterOpen(text) =>
              extracted = Some(Through(text, FirstOpen(text), LastClose(text)))
        /\ OpenNeverClosed(text) => extracted = Some(<< >>)

\* a candidate cut out of a text with a stray "}" before the first "{" and a
\* second "}" after the first one that follows it
C5_Witness ==
    /\ stage = "extracted"
    /\ ClosedAfterOpen(text)
    /\ \E q \in Closes(text) : q < FirstOpen(text)
    /\ \E q \in Closes(text) : FirstOpen(text) < q /\ q < LastClose(text)
    /\ extracted.val # text

(***************************************************************************)
(* C6.  When the process has terminated, run_tests has processed SCENARIOS *)
(* exactly once in list order: one external invocation per scenario, and   *)
(* the runner's lines are, scenario by scenario in list order, one header, *)
(* one marker (success exactly when parse_tool_call returned a call) and   *)
(* one elapsed-time line, whether the scenario succeeded or failed.        *)
(***************************************************************************)
C6_EachScenarioOnceInOrder ==
    exitStatus # -1 =>
        LET lines == SelectSeq(log, IsRunnerLine)
        IN  /\ Len(outcomes) = NumScenarios
            /\ \A i \in 1 .. NumScenarios : launches[i] = 1
            /\ Len(lines) = 3 * NumScenarios
            /\ \A i \in 1 .. NumScenarios :
                  /\ lines[3 * i - 2] = LineHeader(Sid(i))
                  /\ IsMarker(lines[3 * i - 1])
                  /\ lines[3 * i] = LineTime
                  /\ lines[3 * i - 1].kind = "tool" <=>
                        /\ outcomes[i].kind = "exited"
                        /\ ~parse_tool_call(Strip(outcomes[i].stdout)).call.none

(***************************************************************************)
(* C7.  Given an extracted candidate that decodes as JSON, parse_tool_call *)
(* returns a call if and only if the decoded object has tool_name as a     *)
(* string and parameters as an object; further fields do not matter, a     *)
(* missing parameters field is a failure, and the call returned carries    *)
(* the decoded tool_name and parameters.                                   *)
(***************************************************************************)
C7_CallIffToolCallShape ==
    (stage = "parsed" /\ ~extracted.none /\ extracted.val # << >>) =>
        LET d == json_loads(extracted.val)
        IN  d.ok =>
              /\ ~parsed.call.none <=> ToolCallShape(d.val)
              /\ "parameters" \notin DOMAIN d.val.m => parsed.call.none
              /\ ~parsed.call.none =>
                    /\ parsed.call.val.tool_name = d.val.m["tool_name"].s
                    /\ parsed.call.val.parameters = d.val.m["parameters"].m
                    /\ parsed.printed = << >>

\* add_protocol with {protocol: "CAN"} and a further top-level field, parsed
\* out of a text with prose around the object
C7_Witness ==
    /\ stage = "parsed"
    /\ text # extracted.val
    /\ ~parsed.call.none
    /\ parsed.call.val.tool_name = "add_protocol"
    /\ parsed.call.val.parameters = ("protocol" :> JStr("CAN"))
    /\ "note" \in DOMAIN json_loads(extracted.val).val.m

C9_ExtractorIdempotent ==
    /\ (stage \in {"extracted", "again"} /\ Wrapped(text)) => extracted = Some(text)
    /\ (stage = "again" /\ Wrapped(extracted.val)) => again = extracted

\* a candidate with inner braces cut out of a longer text and extracted again
C9_Witness ==
    /\ stage = "again"
    /\ ~Wrapped(text)
    /\ Wrapped(extracted.val)
    /\ Len(extracted.val) > 2
    /\ again = extracted

(***************************************************************************)
(* C10 as stated.  Whenever extract_first_json returns a value other than  *)
(* None, the value begins with "{" and ends with "}"; and for a text with  *)
(* a "{" but no "}" at or after the first "{", parse_tool_call returns no  *)
(* call.                                                                   *)
(***************************************************************************)
C10_CandidateAlwaysBraceDelimited ==
    /\ (stage # "input" /\ ~extracted.none) => Wrapped(extracted.val)
    /\ (stage = "parsed" /\ OpenNeverClosed(text)) => parsed.call.none

(***************************************************************************)
(* C10 amended.  Whenever extract_first_json returns a value other than    *)
(* None and other than the empty string, the value begins with "{" and     *)
(* ends with "}"; for a text with a "{" but no "}" at or after the first   *)
(* "{" it returns the empty string, not None, and parse_tool_call takes    *)
(* the empty string for a missing candidate: it decodes nothing, prints    *)
(* nothing and returns no call.                                            *)
(***************************************************************************)
C10_CandidateBraceDelimitedOrEmpty ==
    /\ (stage # "input" /\ ~extracted.none /\ extracted.val # << >>) =>
          Wrapped(extracted.val)
    /\ (stage # "input" /\ OpenNeverClosed(text)) => extracted = Some(<< >>)
    /\ (stage = "parsed" /\ OpenNeverClosed(text)) => parsed = Returned(None, << >>)

\* parse_tool_call applied to a text whose every "}" precedes its first "{"
C10_Witness ==
    /\ stage = "parsed"
    /\ OpenNeverClosed(text)
    /\ Closes(text) # {}
    /\ extracted = Some(<< >>)

====
